---- MODULE Spec2Model ----
(***************************************************************************)
(* Model of training/memory.py: ExperienceReplay (the record store) and    *)
(* SumTree (its prioritized backing structure).                            *)
(*                                                                         *)
(* Numbers.  Priorities and absolute errors are floats in the source; here *)
(* they are fixed-point integers in hundredths (1.0 is 100), and PER_b is  *)
(* in thousandths.  Sums and differences of priorities are exact in the    *)
(* model; floating-point rounding of the tree sums is not modelled.  A     *)
(* value v handed to get_leaf is the rational vnum / den.                  *)
(*                                                                         *)
(* Records are opaque to the store; the k-th record passed to add is the   *)
(* integer k (1, 2, ...), and 0 is the content of a data slot that was     *)
(* never written (np.zeros).                                               *)
(***************************************************************************)
EXTENDS Integers, Sequences, FiniteSets, TLC

VARIABLES
    capacity,      \* ExperienceReplay.capacity == SumTree.capacity
    prioritized,   \* ExperienceReplay.prioritized
    include_last,  \* ExperienceReplay.include_last
    tree,          \* SumTree.tree    : 0 .. 2*capacity-2 -> priority
    data,          \* SumTree.data    : 0 .. capacity-1   -> record
    data_pointer,  \* SumTree.data_pointer
    buffer,        \* the deque of uniform mode, oldest record first
    maxlen,        \* the deque's maxlen (0 stands for None)
    PER_b,         \* ExperienceReplay.PER_b, thousandths
    n_add,         \* history: number of add calls made so far
    call,          \* history: the last call and its arguments
    ret,           \* history: what the last call returned or raised
    save_experience,  \* ExperienceReplay.save_experience
    storage_size,     \* ExperienceReplay.storage_size
    experience_file,  \* the file at ExperienceReplay.experience_path
    pc,            \* where a running save() stands ("none": not in save)
    held,          \* the consumer's local b_idx and memory_b of its last sample
    thread,        \* the locals of the two threads inside SumTree.update
    observe,       \* Agent.observe, the trainer's start gate
    trainer_pc,    \* where AsynchronousTrainer.train stands
    play           \* the locals of Doom.play

vars == <<capacity, prioritized, include_last, tree, data, data_pointer,
          buffer, maxlen, PER_b, n_add, call, ret, save_experience,
          storage_size, experience_file, pc, held, thread, observe,
          trainer_pc, play>>

config == <<capacity, prioritized, include_last>>

(* what lies outside the store's own fields: the persistence settings, the
   file system, and the caller's local variables *)
threads == <<thread, observe, trainer_pc, play>>

outside == <<save_experience, storage_size, experience_file, pc, held,
             threads>>

----------------------------------------------------------------------------
(* Bounds of the model *)

MaxCapacity == 3
MaxAdds == 5
MaxBatch == 2
MaxTrace == 2
MaxIncludeLast == 2
MaxSamples == 1
MaxLeafPriority == 2
VRes == 2

(* Program constants *)

PER_e == 1
absolute_error_upper == 100
PER_b0 == 400
PER_b_increment == 1
PER_b_max == 1000

(* Inputs.  Absolute errors in hundredths: 0 is lifted by PER_e alone, 200
   is clipped to absolute_error_upper.  UpdatePriorities are the priorities
   SumTree.update is called with directly beside those of batch_update. *)

AbsErrors == {0, 200}
UpdatePriorities == {0, 100}

----------------------------------------------------------------------------
(* Helpers *)

Min(a, b) == IF a <= b THEN a ELSE b

SetMax(S) == CHOOSE x \in S : \A y \in S : y <= x

SetMin(S) == CHOOSE x \in S : \A y \in S : x <= y

Injective(f) == \A i, j \in DOMAIN f : i # j => f[i] # f[j]

----------------------------------------------------------------------------
(* SumTree *)

TreeLen(cap) == 2 * cap - 1

Leaves(cap) == (cap - 1) .. (2 * cap - 2)

Internal(cap) == 0 .. (cap - 2)

LeafPriorities(t, cap) == {t[i] : i \in Leaves(cap)}

SumTreeTree(cap) == [i \in 0 .. (TreeLen(cap) - 1) |-> 0]

SumTreeData(cap) == [i \in 0 .. (cap - 1) |-> 0]

total_priority(t) == t[0]

RECURSIVE Propagate(_, _, _)
Propagate(t, tree_index, change) ==
    IF tree_index = 0
    THEN t
    ELSE LET parent == (tree_index - 1) \div 2
         IN  Propagate([t EXCEPT ![parent] = @ + change], parent, change)

(* update with the change read after the leaf was overwritten *)
update_stale_change(t, tree_index, priority) ==
    LET written == [t EXCEPT ![tree_index] = priority]
        change == priority - written[tree_index]
    IN  Propagate(written, tree_index, change)

(* update propagating the new priority itself, not its difference to the
   old one *)
update_absolute_change(t, tree_index, priority) ==
    Propagate([t EXCEPT ![tree_index] = priority], tree_index, priority)

update(t, tree_index, priority) ==
    LET change == priority - t[tree_index]
    IN  Propagate([t EXCEPT ![tree_index] = priority], tree_index, change)

RECURSIVE Descend(_, _, _, _, _)
Descend(t, cap, parent_index, vnum, den) ==
    LET left_child_index == 2 * parent_index + 1
        right_child_index == left_child_index + 1
    IN  IF left_child_index >= TreeLen(cap)
        THEN parent_index
        ELSE IF vnum <= den * t[left_child_index]
             THEN Descend(t, cap, left_child_index, vnum, den)
             ELSE Descend(t, cap, right_child_index,
                          vnum - den * t[left_child_index], den)

(* get_leaf returning the data index in place of the leaf index *)
get_leaf_data_index(t, d, cap, vnum, den) ==
    LET leaf_index == Descend(t, cap, 0, vnum, den)
        data_index == leaf_index - cap + 1
    IN  <<data_index, t[leaf_index], d[data_index]>>

get_leaf(t, d, cap, vnum, den) ==
    LET leaf_index == Descend(t, cap, 0, vnum, den)
        data_index == leaf_index - cap + 1
    IN  <<leaf_index, t[leaf_index], d[data_index]>>

----------------------------------------------------------------------------
(* ExperienceReplay *)

buffer_size == IF prioritized THEN data_pointer ELSE Len(buffer)

(* np.power(x, PER_a) with PER_a = 0.6, in hundredths rounded down, at the
   values the inputs reach *)
np_power(x) ==
    CASE x = 0 -> 0
      [] x = 1 -> 6
      [] x = 50 -> 65
      [] x = 51 -> 66
      [] x = 100 -> 100
      [] x = 200 -> 151
      [] x = 201 -> 152

NoCall == [op |-> "none", batch_size |-> 0, trace_length |-> 0,
           tree_idx |-> <<>>, abs_errors |-> <<>>, vnum |-> 0]

Idle == call.op = "none"

NoRet == [raised |-> "none", b_idx |-> <<>>, memory_b |-> <<>>,
          b_ISWeights |-> <<>>, leaf |-> <<>>]

(* No file at experience_path.  A file that exists holds the pickled list of
   uniform mode in .buffer, or the pickled SumTree of prioritized mode in
   .tree, .data and .data_pointer. *)
Absent == [exists |-> FALSE, buffer |-> <<>>, tree |-> <<>>, data |-> <<>>,
           data_pointer |-> 0]

(* The consumer holds no sampled batch *)
NoHeld == [taken |-> FALSE, b_idx |-> <<>>, memory_b |-> <<>>]

(* A thread that is not inside a store call.  Inside SumTree.update it has
   the locals tree_index, priority and change; value is the node value it
   has read for the statement  self.tree[tree_index] += change,  todo the
   (leaf, priority) pairs batch_update has still to hand to update, and
   calls counts the store calls the thread has made. *)
IdleThread == [pc |-> "idle", tree_index |-> 0, priority |-> 0, change |-> 0,
               value |-> 0, todo |-> <<>>, calls |-> 0]

NoThreads == [th \in {"producer", "consumer"} |-> IdleThread]

(* Doom.play has not started *)
NoPlay == [train |-> FALSE, n_steps |-> 0, max_epochs |-> 0, n_game |-> 0,
           time_step |-> 0, frames_alive |-> 0, transitions |-> <<>>,
           added |-> <<>>]

Init ==
    /\ capacity \in 1 .. MaxCapacity
    /\ prioritized \in BOOLEAN
    /\ include_last \in IF prioritized THEN {0} ELSE 0 .. MaxIncludeLast
    /\ tree = SumTreeTree(capacity)
    /\ data = SumTreeData(capacity)
    /\ data_pointer = 0
    /\ buffer = <<>>
    /\ maxlen = capacity
    /\ PER_b = PER_b0
    /\ n_add = 0
    /\ call = NoCall
    /\ ret = NoRet
    /\ save_experience = FALSE
    /\ storage_size = capacity
    /\ experience_file = Absent
    /\ pc = "none"
    /\ held = NoHeld
    /\ thread = NoThreads
    /\ observe = 1
    /\ trainer_pc = "waiting"
    /\ play = NoPlay

----------------------------------------------------------------------------
(* SumTree.add *)

(* SumTree.add wrapping one slot late *)
SumTree_add_late_wrap(t, d, dp, cap, priority, record) ==
    LET tree_index == dp + cap - 1
        next == dp + 1
    IN  [tree |-> update(t, tree_index, priority),
         data |-> [d EXCEPT ![dp] = record],
         data_pointer |-> IF next > cap THEN 0 ELSE next]

SumTree_add(t, d, dp, cap, priority, record) ==
    LET tree_index == dp + cap - 1
        next == dp + 1
    IN  [tree |-> update(t, tree_index, priority),
         data |-> [d EXCEPT ![dp] = record],
         data_pointer |-> IF next >= cap THEN 0 ELSE next]

(* collections.deque.append on a deque built with maxlen (0: no maxlen) *)

dequeAppend(q, x, ml) ==
    IF ml # 0 /\ Len(q) >= ml THEN Append(Tail(q), x) ELSE Append(q, x)

(* ExperienceReplay.add *)

(* max_priority without the substitution for an all-zero tree *)
max_priority_no_ceiling(t, cap) == SetMax(LeafPriorities(t, cap))

max_priority(t, cap) ==
    LET m == SetMax(LeafPriorities(t, cap))
    IN  IF m = 0 THEN absolute_error_upper ELSE m

(* what add does to the store *)
StoreAdd(experiences) ==
    IF ~prioritized
    THEN /\ LET appended == dequeAppend(buffer, experiences, maxlen)
            IN  buffer' = IF Len(appended) > capacity
                          THEN Tail(appended)
                          ELSE appended
         /\ UNCHANGED <<tree, data, data_pointer>>
    ELSE /\ LET st == SumTree_add(tree, data, data_pointer, capacity,
                                  max_priority(tree, capacity), experiences)
            IN  /\ tree' = st.tree
                /\ data' = st.data
                /\ data_pointer' = st.data_pointer
         /\ UNCHANGED buffer

Add ==
    /\ Idle
    /\ n_add < MaxAdds
    /\ StoreAdd(n_add + 1)
    /\ n_add' = n_add + 1
    /\ call' = [NoCall EXCEPT !.op = "add"]
    /\ ret' = NoRet
    /\ UNCHANGED <<config, maxlen, PER_b, outside>>

(* SumTree.update called on a leaf, the priority drawn from P *)

UpdateCall(P) ==
    /\ Idle
    /\ prioritized
    /\ \E tree_index \in Leaves(capacity), priority \in P :
          /\ tree' = update(tree, tree_index, priority)
          /\ call' = [NoCall EXCEPT !.op = "update",
                                    !.tree_idx = <<tree_index>>,
                                    !.abs_errors = <<priority>>]
    /\ ret' = NoRet
    /\ UNCHANGED <<config, data, data_pointer, buffer, maxlen, PER_b, n_add,
                   outside>>

TreeUpdate == UpdateCall(UpdatePriorities)

(* ExperienceReplay.batch_update *)

(* the priority without PER_e added to the error *)
Priority_no_epsilon(abs_error) ==
    np_power(Min(abs_error, absolute_error_upper))

Priority(abs_error) ==
    np_power(Min(abs_error + PER_e, absolute_error_upper))

RECURSIVE ZipUpdate(_, _, _, _)
ZipUpdate(t, tree_idx, ps, j) ==
    IF j > Min(Len(tree_idx), Len(ps))
    THEN t
    ELSE ZipUpdate(update(t, tree_idx[j], ps[j]), tree_idx, ps, j + 1)

batch_update(t, tree_idx, abs_errors) ==
    LET ps == [j \in 1 .. Len(abs_errors) |-> Priority(abs_errors[j])]
    IN  ZipUpdate(t, tree_idx, ps, 1)

SeqsUpTo(S, n) == UNION {[1 .. k -> S] : k \in 0 .. n}

BatchUpdate ==
    /\ Idle
    /\ prioritized
    /\ \E tree_idx \in SeqsUpTo(Leaves(capacity), MaxBatch),
          abs_errors \in SeqsUpTo(AbsErrors, MaxBatch) :
          /\ tree' = batch_update(tree, tree_idx, abs_errors)
          /\ call' = [NoCall EXCEPT !.op = "batch_update",
                                    !.tree_idx = tree_idx,
                                    !.abs_errors = abs_errors]
    /\ ret' = NoRet
    /\ UNCHANGED <<config, data, data_pointer, buffer, maxlen, PER_b, n_add,
                   outside>>

----------------------------------------------------------------------------
(* ExperienceReplay.sample *)

(* random.sample(population of size n, k): k distinct positions, any order *)
(* k positions drawn with replacement *)
RandomSamples_with_replacement(n, k) == [1 .. k -> 1 .. n]

RandomSamples(n, k) == {f \in [1 .. k -> 1 .. n] : Injective(f)}

(* Uniform mode, trace_length > 1 *)
SampleTraces(batch_size, trace_length) ==
    LET n == buffer_size - trace_length
    IN  IF n < batch_size
        THEN ret' = [NoRet EXCEPT !.raised = "ValueError"]
        ELSE \E points \in RandomSamples(n, batch_size) :
               ret' = [NoRet EXCEPT !.memory_b =
                         [i \in 1 .. batch_size |->
                            SubSeq(buffer, points[i],
                                   points[i] + trace_length - 1)]]

(* Uniform mode, trace_length = 1 *)
SampleRecords(batch_size) ==
    IF Len(buffer) < batch_size
    THEN ret' = [NoRet EXCEPT !.raised = "ValueError"]
    ELSE \E points \in RandomSamples(Len(buffer), batch_size) :
           IF include_last > batch_size
           THEN ret' = [NoRet EXCEPT !.raised = "IndexError"]
           ELSE ret' = [NoRet EXCEPT !.memory_b =
                          [j \in 1 .. batch_size |->
                             IF j > batch_size - include_last
                             THEN buffer[Len(buffer) - (batch_size - j)]
                             ELSE buffer[points[j]]]]

(* np.random.uniform(a, b) for the i-th segment (i from 0), as numerators
   over the denominator batch_size * VRes *)
(* the draw made over the whole of [0, total_priority), not per segment *)
SegmentValues_unstratified(t, batch_size, i) ==
    LET b == total_priority(t) * batch_size * VRes
    IN  IF b = 0 THEN {0} ELSE 0 .. (b - 1)

SegmentValues(t, batch_size, i) ==
    LET a == total_priority(t) * i * VRes
        b == total_priority(t) * (i + 1) * VRes
    IN  IF a = b THEN {a} ELSE a .. (b - 1)

max_weight(t, cap, batch_size) ==
    LET p_min_num == SetMin(LeafPriorities(t, cap))
    IN  IF total_priority(t) = 0
        THEN [kind |-> "nan", p_min_num |-> p_min_num]
        ELSE IF p_min_num = 0
             THEN [kind |-> "floor", p_min_num |-> p_min_num]
             ELSE [kind |-> "pow", p_min_num |-> p_min_num]

(* The batches the loop over the segments can build: one get_leaf result
   per segment, in segment order *)
RECURSIVE DrawnLeaves(_, _, _, _, _)
DrawnLeaves(t, d, cap, batch_size, n) ==
    IF n = 0
    THEN {<<>>}
    ELSE LET drawn == {get_leaf(t, d, cap, v, batch_size * VRes) :
                         v \in SegmentValues(t, batch_size, n - 1)}
         IN  {Append(s, l) :
                s \in DrawnLeaves(t, d, cap, batch_size, n - 1), l \in drawn}

(* PER_b stepped without the ceiling of 1.0 *)
PER_b_step_unclamped(b) == b + PER_b_increment

PER_b_step(b) == Min(PER_b_max, b + PER_b_increment)

SamplePrioritized(batch_size) ==
    /\ \/ PER_b < PER_b0 + MaxSamples * PER_b_increment
       \/ PER_b >= PER_b_max - MaxSamples * PER_b_increment
    /\ PER_b' = PER_b_step(PER_b)
    /\ \E leaves \in DrawnLeaves(tree, data, capacity, batch_size, batch_size) :
          ret' = [NoRet EXCEPT
                    !.b_idx = [i \in 1 .. batch_size |-> leaves[i][1]],
                    !.memory_b = [i \in 1 .. batch_size |-> leaves[i][3]],
                    !.b_ISWeights =
                       [i \in 1 .. batch_size |->
                          [priority |-> leaves[i][2],
                           total_priority |-> total_priority(tree),
                           batch_size |-> batch_size,
                           PER_b |-> PER_b',
                           max_weight |->
                              max_weight(tree, capacity, batch_size)]]]

Sample ==
    /\ Idle
    /\ \E batch_size \in 1 .. MaxBatch, trace_length \in 1 .. MaxTrace :
          /\ call' = [NoCall EXCEPT !.op = "sample",
                                    !.batch_size = batch_size,
                                    !.trace_length = trace_length]
          /\ IF ~prioritized
             THEN /\ IF trace_length > 1
                     THEN SampleTraces(batch_size, trace_length)
                     ELSE SampleRecords(batch_size)
                  /\ UNCHANGED PER_b
             ELSE SamplePrioritized(batch_size)
    /\ UNCHANGED <<config, tree, data, data_pointer, buffer, maxlen, n_add,
                   outside>>

(* The call returns: the caller takes the result, the store is idle again *)
Return ==
    /\ ~Idle
    /\ pc = "none"
    /\ call' = NoCall
    /\ ret' = NoRet
    /\ UNCHANGED <<config, tree, data, data_pointer, buffer, maxlen, PER_b,
                   n_add, outside>>

Next == Add \/ Sample \/ BatchUpdate \/ TreeUpdate \/ Return

Spec == Init /\ [][Next]_vars

----------------------------------------------------------------------------
(* SumTree on its own: add, update and get_leaf called directly, with small
   priorities 0 .. MaxLeafPriority.  A value v is vnum / VRes; values below
   0 and at or above total_priority are drawn too. *)

SmallPriorities == 0 .. MaxLeafPriority

SumTreeAdd ==
    /\ Idle
    /\ n_add < MaxAdds
    /\ \E priority \in SmallPriorities :
          LET st == SumTree_add(tree, data, data_pointer, capacity, priority,
                                n_add + 1)
          IN  /\ tree' = st.tree
              /\ data' = st.data
              /\ data_pointer' = st.data_pointer
              /\ call' = [NoCall EXCEPT !.op = "SumTree.add",
                                        !.abs_errors = <<priority>>]
    /\ n_add' = n_add + 1
    /\ ret' = NoRet
    /\ UNCHANGED <<config, buffer, maxlen, PER_b, outside>>

SumTreeUpdate == UpdateCall(SmallPriorities)

GetLeaf ==
    /\ Idle
    /\ \E vnum \in (0 - VRes) .. ((total_priority(tree) + 1) * VRes) :
          /\ call' = [NoCall EXCEPT !.op = "get_leaf", !.vnum = vnum]
          /\ ret' = [NoRet EXCEPT
                       !.leaf = get_leaf(tree, data, capacity, vnum, VRes)]
    /\ UNCHANGED <<config, tree, data, data_pointer, buffer, maxlen, PER_b,
                   n_add, outside>>

InitTree == Init /\ prioritized

NextTree == SumTreeAdd \/ SumTreeUpdate \/ GetLeaf \/ Return

SpecTree == InitTree /\ [][NextTree]_vars

----------------------------------------------------------------------------
(* The uniform-mode store on its own, with capacities one above MaxCapacity
   so that a buffer holds several traces *)

InitUniform ==
    /\ prioritized = FALSE
    /\ capacity \in 1 .. (MaxCapacity + 1)
    /\ include_last \in 0 .. MaxIncludeLast
    /\ tree = SumTreeTree(capacity)
    /\ data = SumTreeData(capacity)
    /\ data_pointer = 0
    /\ buffer = <<>>
    /\ maxlen = capacity
    /\ PER_b = PER_b0
    /\ n_add = 0
    /\ call = NoCall
    /\ ret = NoRet
    /\ save_experience = FALSE
    /\ storage_size = capacity
    /\ experience_file = Absent
    /\ pc = "none"
    /\ held = NoHeld
    /\ thread = NoThreads
    /\ observe = 1
    /\ trainer_pc = "waiting"
    /\ play = NoPlay

NextUniform == Add \/ Sample \/ Return

SpecUniform == InitUniform /\ [][NextUniform]_vars

----------------------------------------------------------------------------
(* Persistence: ExperienceReplay.save and ExperienceReplay.load.  save is
   two steps, because the file system is seen between os.remove and
   pickle.dump: SaveBegin runs save up to and including the removal of the
   old file, SaveDump builds stored_experience and writes it. *)

Snapshot(buf, t, d, dp) ==
    [exists |-> TRUE, buffer |-> buf, tree |-> t, data |-> d,
     data_pointer |-> dp]

SaveBegin ==
    /\ Idle
    /\ call' = [NoCall EXCEPT !.op = "save"]
    /\ ret' = NoRet
    /\ IF ~save_experience
       THEN UNCHANGED <<experience_file, pc>>
       ELSE /\ experience_file' = Absent
            /\ pc' = "dump"
    /\ UNCHANGED <<config, tree, data, data_pointer, buffer, maxlen, PER_b,
                   n_add, save_experience, storage_size, held, threads>>

(* itertools.islice(q, start, stop) for 0 <= start *)
islice(q, start, stop) == SubSeq(q, start + 1, Min(stop, Len(q)))

SaveDump ==
    /\ pc = "dump"
    /\ pc' = "none"
    /\ IF prioritized
       THEN /\ experience_file' = Snapshot(<<>>, tree, data, data_pointer)
            /\ UNCHANGED ret
       ELSE IF buffer_size - storage_size < 0
            THEN /\ ret' = [NoRet EXCEPT !.raised = "ValueError"]
                 /\ UNCHANGED experience_file
            ELSE /\ experience_file' =
                       Snapshot(islice(buffer, buffer_size - storage_size,
                                       buffer_size), <<>>, <<>>, 0)
                 /\ UNCHANGED ret
    /\ UNCHANGED <<config, tree, data, data_pointer, buffer, maxlen, PER_b,
                   n_add, call, save_experience, storage_size, held,
                   threads>>

Load ==
    /\ Idle
    /\ call' = [NoCall EXCEPT !.op = "load"]
    /\ IF ~experience_file.exists
       THEN /\ ret' = [NoRet EXCEPT !.raised = "FileNotFoundError"]
            /\ UNCHANGED <<tree, data, data_pointer, buffer, maxlen>>
       ELSE /\ ret' = NoRet
            /\ IF prioritized
               THEN /\ tree' = experience_file.tree
                    /\ data' = experience_file.data
                    /\ data_pointer' = experience_file.data_pointer
                    /\ UNCHANGED <<buffer, maxlen>>
               ELSE /\ buffer' = experience_file.buffer
                    /\ maxlen' = 0
                    /\ UNCHANGED <<tree, data, data_pointer>>
    /\ UNCHANGED <<config, PER_b, n_add, outside>>

(* The store with its file.  The store is freshly constructed; the file at
   experience_path is absent or, in uniform mode, a list pickled by an
   earlier run, whose capacity and storage_size need not be those of this
   run (its records are the negative integers, oldest first).  PER_b starts
   at its initial value or one increment below 1.0, where prioritized sample
   calls, which change nothing else, have brought it.  Prioritized stores
   have capacity 1 here: the file holds a whole tree, and larger trees are
   the subject of Spec and SpecTree. *)

PersistCapacities(p) == IF p THEN {1} ELSE 1 .. MaxCapacity

EarlierSnapshot(len) ==
    Snapshot([i \in 1 .. len |-> i - len - 1], <<>>, <<>>, 0)

InitPersist ==
    /\ prioritized \in BOOLEAN
    /\ capacity \in PersistCapacities(prioritized)
    /\ include_last = 0
    /\ tree = SumTreeTree(capacity)
    /\ data = SumTreeData(capacity)
    /\ data_pointer = 0
    /\ buffer = <<>>
    /\ maxlen = capacity
    /\ PER_b \in IF prioritized
                 THEN {PER_b0, PER_b_max - PER_b_increment}
                 ELSE {PER_b0}
    /\ n_add = 0
    /\ call = NoCall
    /\ ret = NoRet
    /\ save_experience \in BOOLEAN
    /\ storage_size \in 1 .. MaxCapacity
    /\ experience_file \in
          IF prioritized
          THEN {Absent}
          ELSE {Absent} \cup {EarlierSnapshot(len) : len \in 1 .. (capacity + 1)}
    /\ pc = "none"
    /\ held = NoHeld
    /\ thread = NoThreads
    /\ observe = 1
    /\ trainer_pc = "waiting"
    /\ play = NoPlay

NextPersist ==
    Add \/ Sample \/ BatchUpdate \/ SaveBegin \/ SaveDump \/ Load \/ Return

SpecPersist == InitPersist /\ [][NextPersist]_vars

----------------------------------------------------------------------------
(* Producer and consumer on one prioritized store.  The producer (Doom.play)
   calls add; the consumer (the training thread) calls sample, keeps the
   returned b_idx and memory_b in its local variables while it computes the
   errors, and hands b_idx back to batch_update.  Each call is atomic and
   the calls of the two threads interleave freely: nothing in the store or
   in its callers orders them. *)

ConsumerSample ==
    /\ ~held.taken
    /\ Sample

(* a call returns; the consumer keeps what its sample call returned *)
AsyncReturn ==
    /\ ~Idle
    /\ pc = "none"
    /\ held' = IF call.op = "sample"
               THEN [taken |-> TRUE, b_idx |-> ret.b_idx,
                     memory_b |-> ret.memory_b]
               ELSE held
    /\ call' = NoCall
    /\ ret' = NoRet
    /\ UNCHANGED <<config, tree, data, data_pointer, buffer, maxlen, PER_b,
                   n_add, save_experience, storage_size, experience_file, pc,
                   threads>>

ConsumerBatchUpdate ==
    /\ Idle
    /\ held.taken
    /\ \E abs_errors \in [1 .. Len(held.b_idx) -> AbsErrors] :
          /\ tree' = batch_update(tree, held.b_idx, abs_errors)
          /\ call' = [NoCall EXCEPT !.op = "batch_update",
                                    !.tree_idx = held.b_idx,
                                    !.abs_errors = abs_errors]
    /\ ret' = NoRet
    /\ held' = NoHeld
    /\ UNCHANGED <<config, data, data_pointer, buffer, maxlen, PER_b, n_add,
                   save_experience, storage_size, experience_file, pc,
                   threads>>

InitAsync == Init /\ prioritized

NextAsync == Add \/ ConsumerSample \/ ConsumerBatchUpdate \/ AsyncReturn

SpecAsync == InitAsync /\ [][NextAsync]_vars

----------------------------------------------------------------------------
(* Two threads inside SumTree.update with no lock.  The producer (Doom.play)
   is in add, the consumer (the training thread) is in batch_update; each
   runs update statement by statement, and the statement
   self.tree[tree_index] += change  is a read of the node followed by a
   write of the sum.  The steps of the two threads interleave freely. *)

MaxRaceCalls == 1

InUpdate(th, tree_index, priority) ==
    [thread[th] EXCEPT !.pc = "change", !.tree_index = tree_index,
                       !.priority = priority]

(* ExperienceReplay.add and SumTree.add up to the call of update *)
ProducerAdd ==
    /\ thread["producer"].pc = "idle"
    /\ thread["producer"].calls < MaxRaceCalls
    /\ data' = [data EXCEPT ![data_pointer] = n_add + 1]
    /\ n_add' = n_add + 1
    /\ thread' = [thread EXCEPT !["producer"] =
                    [InUpdate("producer", data_pointer + capacity - 1,
                              max_priority(tree, capacity))
                       EXCEPT !.calls = @ + 1]]
    /\ UNCHANGED <<config, tree, data_pointer, buffer, maxlen, PER_b, call,
                   ret, save_experience, storage_size, experience_file, pc,
                   held, observe, trainer_pc, play>>

(* SumTree.add after update has returned *)
ProducerReturn ==
    /\ thread["producer"].pc = "return"
    /\ data_pointer' = IF data_pointer + 1 >= capacity
                       THEN 0
                       ELSE data_pointer + 1
    /\ thread' = [thread EXCEPT !["producer"] =
                    [IdleThread EXCEPT !.calls = thread["producer"].calls]]
    /\ UNCHANGED <<config, tree, data, buffer, maxlen, PER_b, n_add, call,
                   ret, save_experience, storage_size, experience_file, pc,
                   held, observe, trainer_pc, play>>

(* ExperienceReplay.batch_update up to its first call of update *)
ConsumerBatch ==
    /\ thread["consumer"].pc = "idle"
    /\ thread["consumer"].calls < MaxRaceCalls
    /\ \E n \in 1 .. MaxBatch :
          \E tree_idx \in [1 .. n -> Leaves(capacity)],
             abs_errors \in [1 .. n -> AbsErrors] :
             LET ps == [j \in 1 .. n |-> Priority(abs_errors[j])]
                 pairs == [j \in 1 .. n |-> <<tree_idx[j], ps[j]>>]
             IN  thread' = [thread EXCEPT !["consumer"] =
                              [InUpdate("consumer", tree_idx[1], ps[1])
                                 EXCEPT !.todo = Tail(pairs),
                                        !.calls = @ + 1]]
    /\ UNCHANGED <<config, tree, data, data_pointer, buffer, maxlen, PER_b,
                   n_add, call, ret, save_experience, storage_size,
                   experience_file, pc, held, observe, trainer_pc, play>>

(* the loop of batch_update after update has returned *)
ConsumerReturn ==
    /\ thread["consumer"].pc = "return"
    /\ thread' = [thread EXCEPT !["consumer"] =
                    IF thread["consumer"].todo = <<>>
                    THEN [IdleThread EXCEPT
                            !.calls = thread["consumer"].calls]
                    ELSE [InUpdate("consumer",
                                   Head(thread["consumer"].todo)[1],
                                   Head(thread["consumer"].todo)[2])
                            EXCEPT !.todo = Tail(@)]]
    /\ UNCHANGED <<config, tree, data, data_pointer, buffer, maxlen, PER_b,
                   n_add, call, ret, save_experience, storage_size,
                   experience_file, pc, held, observe, trainer_pc, play>>

(* where update goes after a write: back into the loop, or out of it *)
AfterWrite(tree_index) == IF tree_index = 0 THEN "return" ELSE "read"

(* change = priority - self.tree[tree_index] *)
UpdateChange(th) ==
    /\ thread[th].pc = "change"
    /\ thread' = [thread EXCEPT ![th].change =
                    thread[th].priority - tree[thread[th].tree_index],
                                ![th].pc = "write_leaf"]
    /\ UNCHANGED tree

(* self.tree[tree_index] = priority *)
UpdateWriteLeaf(th) ==
    /\ thread[th].pc = "write_leaf"
    /\ tree' = [tree EXCEPT ![thread[th].tree_index] = thread[th].priority]
    /\ thread' = [thread EXCEPT ![th].pc = AfterWrite(thread[th].tree_index)]

(* tree_index = (tree_index - 1) // 2 and the read of self.tree[tree_index] *)
UpdateRead(th) ==
    /\ thread[th].pc = "read"
    /\ LET parent == (thread[th].tree_index - 1) \div 2
       IN  thread' = [thread EXCEPT ![th].tree_index = parent,
                                   ![th].value = tree[parent],
                                   ![th].pc = "write"]
    /\ UNCHANGED tree

(* the write of self.tree[tree_index] += change *)
UpdateWrite(th) ==
    /\ thread[th].pc = "write"
    /\ tree' = [tree EXCEPT ![thread[th].tree_index] =
                   thread[th].value + thread[th].change]
    /\ thread' = [thread EXCEPT ![th].pc = AfterWrite(thread[th].tree_index)]

UpdateStep ==
    /\ \E th \in {"producer", "consumer"} :
          \/ UpdateChange(th)
          \/ UpdateWriteLeaf(th)
          \/ UpdateRead(th)
          \/ UpdateWrite(th)
    /\ UNCHANGED <<config, data, data_pointer, buffer, maxlen, PER_b, n_add,
                   call, ret, save_experience, storage_size, experience_file,
                   pc, held, observe, trainer_pc, play>>

InitRace == Init /\ prioritized

NextRace ==
    ProducerAdd \/ ProducerReturn \/ ConsumerBatch \/ ConsumerReturn
       \/ UpdateStep

SpecRace == InitRace /\ [][NextRace]_vars

----------------------------------------------------------------------------
(* The trainer's start gate.  AsynchronousTrainer.train polls
   memory.buffer_size once a second until it is at least agent.observe,
   while the producer adds records.  Both threads keep running, which the
   fairness conditions state: the producer's add and its return are taken
   when they stay possible, and so is the trainer's exit from the loop. *)

TrainerStart ==
    /\ trainer_pc = "waiting"
    /\ ~(buffer_size < observe)
    /\ trainer_pc' = "training"
    /\ UNCHANGED <<config, tree, data, data_pointer, buffer, maxlen, PER_b,
                   n_add, call, ret, save_experience, storage_size,
                   experience_file, pc, held, thread, observe, play>>

InitGate ==
    /\ prioritized \in BOOLEAN
    /\ capacity \in 1 .. MaxCapacity
    /\ include_last = 0
    /\ tree = SumTreeTree(capacity)
    /\ data = SumTreeData(capacity)
    /\ data_pointer = 0
    /\ buffer = <<>>
    /\ maxlen = capacity
    /\ PER_b = PER_b0
    /\ n_add = 0
    /\ call = NoCall
    /\ ret = NoRet
    /\ save_experience = FALSE
    /\ storage_size = capacity
    /\ experience_file = Absent
    /\ pc = "none"
    /\ held = NoHeld
    /\ thread = NoThreads
    /\ observe \in 1 .. capacity
    /\ trainer_pc = "waiting"
    /\ play = NoPlay

NextGate == Add \/ Return \/ TrainerStart

SpecGate ==
    /\ InitGate
    /\ [][NextGate]_vars
    /\ WF_vars(Add)
    /\ WF_vars(Return)
    /\ WF_vars(TrainerStart)

----------------------------------------------------------------------------
(* Doom.play: the loop that steps the game and hands n-step records to the
   store.  A transition is the tuple appended to the deque transitions; of
   its fields the model keeps terminated, and as history the episode
   (n_game when the action was taken) and the time step it was made in.
   play.added is history too: the array the step passed to memory.add, or
   <<>> when the step did not call add. *)

MaxNSteps == 3
MaxEpochs == 2
MaxPlaySteps == 6

(* frames_alive counted on through the end of an episode *)
frames_alive_step_no_reset(frames_alive, terminated) == frames_alive + 1

frames_alive_step(frames_alive, terminated) ==
    IF terminated THEN 0 ELSE frames_alive + 1

(* one iteration of the while loop, the call of memory.add included *)
PlayStep ==
    /\ Idle
    /\ play.n_game < play.max_epochs
    /\ play.time_step < MaxPlaySteps
    /\ \E terminated \in BOOLEAN :
          LET frames_alive == frames_alive_step(play.frames_alive, terminated)
              transition == [episode |-> play.n_game,
                             step |-> play.time_step,
                             terminated |-> terminated]
              transitions == IF play.train
                             THEN dequeAppend(play.transitions, transition,
                                              play.n_steps)
                             ELSE play.transitions
              adds == /\ play.train
                      /\ frames_alive % play.n_steps = 0
                      /\ frames_alive # 0
          IN  /\ play' = [play EXCEPT
                             !.n_game = IF terminated THEN @ + 1 ELSE @,
                             !.frames_alive = frames_alive,
                             !.time_step = @ + 1,
                             !.transitions = transitions,
                             !.added = IF adds THEN transitions ELSE <<>>]
              /\ IF adds
                 THEN /\ StoreAdd(n_add + 1)
                      /\ n_add' = n_add + 1
                 ELSE UNCHANGED <<tree, data, data_pointer, buffer, n_add>>
    /\ UNCHANGED <<config, maxlen, PER_b, call, ret, save_experience,
                   storage_size, experience_file, pc, held, thread, observe,
                   trainer_pc>>

InitPlay ==
    /\ prioritized \in BOOLEAN
    /\ capacity \in 1 .. MaxCapacity
    /\ include_last = 0
    /\ tree = SumTreeTree(capacity)
    /\ data = SumTreeData(capacity)
    /\ data_pointer = 0
    /\ buffer = <<>>
    /\ maxlen = capacity
    /\ PER_b = PER_b0
    /\ n_add = 0
    /\ call = NoCall
    /\ ret = NoRet
    /\ save_experience = FALSE
    /\ storage_size = capacity
    /\ experience_file = Absent
    /\ pc = "none"
    /\ held = NoHeld
    /\ thread = NoThreads
    /\ observe = 1
    /\ trainer_pc = "waiting"
    /\ \E train \in BOOLEAN, n_steps \in 1 .. MaxNSteps,
          max_epochs \in 1 .. MaxEpochs :
          play = [NoPlay EXCEPT !.train = train, !.n_steps = n_steps,
                                !.max_epochs = max_epochs]

NextPlay == PlayStep

SpecPlay == InitPlay /\ [][NextPlay]_vars

----------------------------------------------------------------------------
(* Claims *)

RECURSIVE SumOver(_, _)
SumOver(t, S) ==
    IF S = {}
    THEN 0
    ELSE LET x == CHOOSE y \in S : TRUE
         IN  t[x] + SumOver(t, S \ {x})

(* C1: in every state reached by add, SumTree.update on a leaf and
   batch_update on leaves, every internal node of the tree is the sum of its
   two children, and total_priority is the sum of the leaf priorities. *)
C1_SumInvariant ==
    /\ \A i \in Internal(capacity) :
          tree[i] = tree[2 * i + 1] + tree[2 * i + 2]
    /\ total_priority(tree) = SumOver(tree, Leaves(capacity))

(* A batch_update naming the same leaf twice, after the ring has wrapped *)
C1_Witness ==
    /\ prioritized
    /\ capacity = 3
    /\ n_add > capacity
    /\ call.op = "batch_update"
    /\ Len(call.tree_idx) = 2
    /\ Len(call.abs_errors) = 2
    /\ call.tree_idx[1] = call.tree_idx[2]
    /\ call.abs_errors[1] # call.abs_errors[2]

(* C2: after k add calls on a fresh store the size reported by buffer_size
   is min(k, capacity), in uniform and in prioritized mode. *)
C2_SizeIsMinCount == buffer_size = Min(n_add, capacity)

(* The record the ring holds in data slot j after n adds: the latest record
   r <= n with (r - 1) mod capacity = j, and 0 when there is none *)
SlotRecord(j, n) ==
    LET written == {r \in 1 .. n : (r - 1) % capacity = j}
    IN  IF written = {} THEN 0 ELSE SetMax(written)

(* C3: after k adds the store holds the min(k, capacity) most recent
   records: in uniform mode the buffer is those records oldest first; in
   prioritized mode record j (from 0) is in data slot j mod capacity, and
   data_pointer is k mod capacity, inside 0 .. capacity-1. *)
C3_Fifo ==
    LET m == Min(n_add, capacity)
    IN  /\ ~prioritized => buffer = [i \in 1 .. m |-> n_add - m + i]
        /\ prioritized =>
              /\ \A j \in 0 .. (capacity - 1) : data[j] = SlotRecord(j, n_add)
              /\ data_pointer = n_add % capacity
              /\ data_pointer \in 0 .. (capacity - 1)

(* The add that overwrites the oldest record of a full ring of three *)
C3_Witness ==
    /\ prioritized
    /\ capacity = 3
    /\ n_add = capacity + 1
    /\ call.op = "add"
    /\ data[0] = 4

(* C4: for v in [0, total_priority), get_leaf(v) returns a leaf L with
   C <= v < C + priority(L), C being the sum of the priorities of the leaves
   with a smaller leaf index; the priority returned is tree[L] and the
   record returned is data[L - capacity + 1]. *)
C4_PrefixSumLeaf ==
    (/\ call.op = "get_leaf"
     /\ 0 <= call.vnum
     /\ call.vnum < total_priority(tree) * VRes) =>
       LET L == ret.leaf[1]
           C == SumOver(tree, {l \in Leaves(capacity) : l < L})
       IN  /\ L \in Leaves(capacity)
           /\ C * VRes <= call.vnum
           /\ call.vnum < (C + tree[L]) * VRes
           /\ ret.leaf[2] = tree[L]
           /\ ret.leaf[3] = data[L - capacity + 1]

(* C5: a prioritized add gives the new leaf the largest leaf priority read
   before the insertion, or absolute_error_upper when that is 0; after the
   add the new leaf's priority is positive and no leaf exceeds it. *)
C5_AddPriority ==
    [][(prioritized /\ Idle /\ call'.op = "add") =>
         LET leaf == data_pointer + capacity - 1
             before == CHOOSE x \in Leaves(capacity) :
                          \A y \in Leaves(capacity) : tree[y] <= tree[x]
         IN  /\ tree'[leaf] = IF tree[before] = 0
                               THEN absolute_error_upper
                               ELSE tree[before]
             /\ tree'[leaf] > 0
             /\ \A l \in Leaves(capacity) : tree'[l] <= tree'[leaf]]_vars

(* An add into a tree whose largest priority was below the ceiling *)
C5_Witness ==
    /\ prioritized
    /\ call.op = "add"
    /\ n_add > capacity
    /\ tree[((n_add - 1) % capacity) + capacity - 1] = 6

(* C6: a prioritized sample with total_priority > 0 returns batch_size
   indices, records and weights; the i-th index is get_leaf(v) for a v in
   the i-th of batch_size equal segments of [0, total_priority), it is a
   leaf index, and the i-th record is data[index - capacity + 1]. *)
C6_StratifiedSample ==
    (prioritized /\ call.op = "sample" /\ total_priority(tree) > 0) =>
       LET n == call.batch_size
           T == total_priority(tree)
       IN  /\ ret.raised = "none"
           /\ Len(ret.b_idx) = n
           /\ Len(ret.memory_b) = n
           /\ Len(ret.b_ISWeights) = n
           /\ \A i \in 1 .. n :
                 /\ ret.b_idx[i] \in (capacity - 1) .. (2 * capacity - 2)
                 /\ ret.memory_b[i] = data[ret.b_idx[i] - capacity + 1]
                 /\ \E v \in ((i - 1) * T * VRes) .. (i * T * VRes - 1) :
                       ret.b_idx[i] = Descend(tree, capacity, 0, v, n * VRes)

(* A batch of two drawn from two different leaves of a tree of three *)
C6_Witness ==
    /\ prioritized
    /\ capacity = 3
    /\ call.op = "sample"
    /\ call.batch_size = 2
    /\ total_priority(tree) > 0
    /\ Len(ret.b_idx) = 2
    /\ ret.b_idx[1] # ret.b_idx[2]

(* C7: uniform mode, trace_length 1: for every batch_size in 1 .. size and
   every include_last, sample succeeds and returns batch_size records, no
   indices and no weights, and for i < min(include_last, batch_size) the
   record at result position batch_size-1-i is the i-th most recent one. *)
C7_RecencyForcing ==
    (/\ ~prioritized
     /\ call.op = "sample"
     /\ call.trace_length = 1
     /\ call.batch_size >= 1
     /\ call.batch_size <= Len(buffer)) =>
       LET n == call.batch_size
       IN  /\ ret.raised = "none"
           /\ Len(ret.memory_b) = n
           /\ ret.b_idx = <<>>
           /\ ret.b_ISWeights = <<>>
           /\ \A i \in 0 .. (Min(include_last, n) - 1) :
                 ret.memory_b[n - i] = buffer[Len(buffer) - i]

(* C8: sample with batch_size above the current size fails, in uniform and
   in prioritized mode; it never returns a batch. *)
C8_InsufficientData ==
    (call.op = "sample" /\ call.batch_size > buffer_size) =>
       ret.raised # "none"

(* C9: batch_update with two sequences of different lengths fails. *)
C9_LengthMismatch ==
    (/\ call.op = "batch_update"
     /\ Len(call.tree_idx) # Len(call.abs_errors)) =>
       ret.raised # "none"

(* C10: batch_update with arguments of equal length sets the leaf at
   indices[j] to min(abs_errors[j] + PER_e, absolute_error_upper) ^ PER_a;
   a leaf it touches ends in (0, absolute_error_upper ^ PER_a], a leaf named
   several times ends with the priority of its last pair, and a leaf not
   named keeps its priority. *)
C10_BatchUpdatePriorities ==
    [][(/\ Idle
        /\ call'.op = "batch_update"
        /\ Len(call'.tree_idx) = Len(call'.abs_errors)) =>
         LET idx == call'.tree_idx
             errs == call'.abs_errors
             Named(l) == {j \in 1 .. Len(idx) : idx[j] = l}
         IN  \A l \in Leaves(capacity) :
               IF Named(l) = {}
               THEN tree'[l] = tree[l]
               ELSE LET e == errs[SetMax(Named(l))]
                    IN  /\ tree'[l] =
                              np_power(Min(e + PER_e, absolute_error_upper))
                        /\ tree'[l] > 0
                        /\ tree'[l] <= np_power(absolute_error_upper)]_vars

(* One leaf named twice with different errors, the last one setting a
   priority other than the one the leaf had, another leaf left alone *)
C10_Witness ==
    /\ prioritized
    /\ capacity >= 2
    /\ n_add >= capacity
    /\ call.op = "batch_update"
    /\ call.tree_idx = <<capacity - 1, capacity - 1>>
    /\ call.abs_errors = <<200, 0>>
    /\ tree[capacity - 1] = 6
    /\ tree[capacity] = 100

(* C11: PER_b never decreases and stays between its initial value and 1.0:
   a prioritized sample call sets it to min(1.0, PER_b + PER_b_increment),
   and every other step (add, batch_update, save, load, a uniform-mode
   sample, a return) leaves it as it was. *)
C11_BetaMonotone ==
    [][/\ PER_b' >= PER_b
       /\ PER_b0 <= PER_b'
       /\ PER_b' <= PER_b_max
       /\ IF prioritized /\ Idle /\ call'.op = "sample"
          THEN PER_b' = Min(PER_b_max, PER_b + PER_b_increment)
          ELSE PER_b' = PER_b]_vars

(* a prioritized sample call has returned a batch with PER_b at its ceiling
   of 1.0, in a store that was loaded from its own snapshot *)
C11_Witness ==
    /\ prioritized
    /\ call.op = "sample"
    /\ PER_b = PER_b_max
    /\ ret.b_idx # <<>>
    /\ experience_file.exists
    /\ n_add > 0

(* The leaves populated by an insertion so far *)
ActiveLeaves == {j + capacity - 1 : j \in 0 .. (Min(n_add, capacity) - 1)}

(* C12: in a prioritized sample, p_min is the least priority over the
   populated leaves only, and max_weight is the floor value only when that
   minimum is 0; with a partly filled tree whose populated leaves are all
   positive, max_weight is (p_min * batch_size) ^ (-PER_b). *)
C12_ActiveMinimum ==
    (prioritized /\ call.op = "sample" /\ n_add > 0
       /\ total_priority(tree) > 0) =>
    LET p_min_num == SetMin({tree[l] : l \in ActiveLeaves})
    IN  \A i \in DOMAIN ret.b_ISWeights :
           /\ ret.b_ISWeights[i].max_weight.p_min_num = p_min_num
           /\ ret.b_ISWeights[i].max_weight.kind =
                 IF p_min_num = 0 THEN "floor" ELSE "pow"

(* C13: in uniform mode with trace_length > 1 and batch_size at most
   size - trace_length, sample returns batch_size traces that start at
   pairwise distinct offsets in [0, size - trace_length), each trace being
   the trace_length records at positions offset .. offset + trace_length - 1
   of the buffer, in buffer order and without the newest records forced in. *)
C13_TraceSample ==
    (~prioritized /\ call.op = "sample" /\ call.trace_length > 1
       /\ call.batch_size <= Len(buffer) - call.trace_length) =>
    /\ ret.raised = "none"
    /\ Len(ret.memory_b) = call.batch_size
    /\ \E offset \in [1 .. call.batch_size ->
                         0 .. (Len(buffer) - call.trace_length - 1)] :
          /\ Injective(offset)
          /\ \A i \in 1 .. call.batch_size :
                ret.memory_b[i] =
                   [k \in 1 .. call.trace_length |-> buffer[offset[i] + k]]

(* two traces of two records each were sampled from a full buffer *)
C13_Witness ==
    /\ ~prioritized
    /\ call.op = "sample"
    /\ call.trace_length = 2
    /\ call.batch_size = 2
    /\ Len(buffer) = capacity
    /\ ret.raised = "none"
    /\ Len(ret.memory_b) = 2
    /\ ret.memory_b[1] # ret.memory_b[2]

(* C14: a save() that finds a snapshot at experience_path never leaves the
   path without a complete snapshot: no step of save takes the file from
   present to absent, so the previous snapshot survives until the new one
   is written, and survives a save that fails on the way. *)
C14_SnapshotKept ==
    [][(experience_file.exists /\ (call'.op = "save" \/ pc = "dump")) =>
          experience_file'.exists]_vars

(* The last k records of the buffer, oldest first *)
LastRecords(k) == SubSeq(buffer, Len(buffer) - k + 1, Len(buffer))

(* C15: save() and then load() is a round trip for a store of any size:
   with persistence enabled, save leaves at experience_path the last
   min(size, storage_size) records in order (uniform mode) or the priority
   array, data array and data_pointer (prioritized mode), and load makes
   exactly that the content of the store. *)
C15_RoundTrip ==
    [][/\ (pc = "dump") =>
            experience_file' =
               IF prioritized
               THEN Snapshot(<<>>, tree, data, data_pointer)
               ELSE Snapshot(LastRecords(Min(Len(buffer), storage_size)),
                             <<>>, <<>>, 0)
       /\ (Idle /\ call'.op = "load" /\ experience_file.exists) =>
            IF prioritized
            THEN /\ tree' = experience_file.tree
                 /\ data' = experience_file.data
                 /\ data_pointer' = experience_file.data_pointer
            ELSE buffer' = experience_file.buffer]_vars

(* C16: the uniform-mode store never holds more than capacity records, also
   after load() of a snapshot of any length and after the adds that follow. *)
C16_UniformBounded == ~prioritized => Len(buffer) <= capacity

(* C17: get_leaf(v) with 0 <= v < total_priority never returns a leaf that
   no insertion has written and that holds priority 0, whatever v is (0 and
   the boundaries between leaves included), in a tree whose populated
   leaves are positive and whose other leaves are 0. *)
C17_NoUnwrittenLeaf ==
    (/\ call.op = "get_leaf"
     /\ 0 <= call.vnum
     /\ call.vnum < total_priority(tree) * VRes
     /\ \A l \in Leaves(capacity) : (tree[l] > 0) <=> (l \in ActiveLeaves)) =>
    ret.leaf[1] \in ActiveLeaves

(* The number of descents from the root that lead to node i: the loop of
   get_leaf moves from a node to one of its children at every descent *)
RECURSIVE Depth(_)
Depth(i) == IF i = 0 THEN 0 ELSE 1 + Depth((i - 1) \div 2)

(* ceil(log2(n)) for n >= 1 *)
RECURSIVE CeilLog2(_)
CeilLog2(n) == IF n <= 1 THEN 0 ELSE 1 + CeilLog2((n + 1) \div 2)

(* C18: get_leaf(v) terminates for every v, inside or outside
   [0, total_priority), and every tree, the all-zero tree and trees with
   zero-sum subtrees included: its loop runs at most
   ceil(log2(capacity)) + 1 times, and the index returned is a leaf index,
   between capacity - 1 and 2 * capacity - 2. *)
C18_GetLeafTerminates ==
    (call.op = "get_leaf") =>
    /\ ret.leaf[1] \in Leaves(capacity)
    /\ capacity - 1 <= ret.leaf[1]
    /\ ret.leaf[1] <= 2 * capacity - 2
    /\ Depth(ret.leaf[1]) + 1 <= CeilLog2(capacity) + 1

(* get_leaf was called with a negative v on an all-zero tree of capacity 3
   and went down two levels *)
C18_Witness ==
    /\ call.op = "get_leaf"
    /\ call.vnum < 0
    /\ capacity = 3
    /\ \A i \in DOMAIN tree : tree[i] = 0
    /\ Depth(ret.leaf[1]) = 2

(* The nodes from node i up to the root *)
RECURSIVE PathToRoot(_)
PathToRoot(i) == IF i = 0 THEN {0} ELSE {i} \cup PathToRoot((i - 1) \div 2)

(* C19: SumTree.update(leaf, p) is idempotent and local: it sets the leaf
   to p, a call that finds the leaf already at p (the second of two
   consecutive identical calls) leaves the whole tree array unchanged, and
   every call changes only the leaf and the nodes on its path to the root,
   leaving the other nodes, the data array and data_pointer as they were. *)
C19_UpdateIdempotentLocal ==
    [][(Idle /\ call'.op = "update") =>
          LET leaf == call'.tree_idx[1]
              p == call'.abs_errors[1]
          IN  /\ tree'[leaf] = p
              /\ (tree[leaf] = p) => (tree' = tree)
              /\ \A i \in DOMAIN tree :
                    i \notin PathToRoot(leaf) => tree'[i] = tree[i]
              /\ data' = data
              /\ data_pointer' = data_pointer]_vars

(* update has set a leaf two levels down to a positive priority, beside
   another positive leaf, in a tree that holds records *)
C19_Witness ==
    /\ call.op = "update"
    /\ capacity = 3
    /\ call.tree_idx[1] = 4
    /\ call.abs_errors[1] > 0
    /\ tree[3] > 0
    /\ tree[2] > 0
    /\ n_add > 0

(* C20: with the producer's add calls interleaved between the consumer's
   sample and batch_update, every leaf index the consumer got from sample
   still refers, when batch_update uses it, to the record sample returned
   for it: the data slot of an index sampled with a record holds that
   record. *)
C20_SampledIndexStable ==
    [][(Idle /\ held.taken /\ call'.op = "batch_update") =>
          \A j \in 1 .. Len(held.b_idx) :
             held.memory_b[j] # 0 =>
                data[held.b_idx[j] - capacity + 1] = held.memory_b[j]]_vars

(* C21: with the producer in add and the consumer in batch_update on the
   shared tree, unlocked and interleaved read by read and write by write,
   total_priority equals the sum of the leaf priorities whenever both
   threads are idle: no update of a common ancestor is lost. *)
C21_NoLostUpdate ==
    (\A th \in DOMAIN thread : thread[th].pc = "idle") =>
    total_priority(tree) = SumOver(tree, Leaves(capacity))

(* C22: the trainer's start gate opens and stays open: for observe at most
   capacity, in either mode, once at least observe records have been added
   the condition buffer_size >= observe holds, and goes on holding, so the
   wait loop of AsynchronousTrainer.train is left. *)
C22_GateStaysOpen == (n_add >= observe) => (buffer_size >= observe)

(* C23: with training enabled, Doom.play calls memory.add exactly on the
   steps that leave frames_alive at a positive multiple of n_steps, and the
   record it passes consists of exactly n_steps consecutive transitions of
   one episode, none of them with terminated = true. *)
C23_NStepRecords ==
    (play.train /\ play.time_step > 0) =>
    /\ (play.added # <<>>) <=>
          (play.frames_alive > 0 /\ play.frames_alive % play.n_steps = 0)
    /\ (play.added # <<>>) =>
          /\ Len(play.added) = play.n_steps
          /\ \A i \in 1 .. Len(play.added) :
                /\ ~play.added[i].terminated
                /\ play.added[i].episode = play.added[1].episode
                /\ play.added[i].step = play.added[1].step + i - 1

(* a record of two transitions was passed to add in the second episode,
   in the step right after the transition that follows a termination *)
C23_Witness ==
    /\ play.train
    /\ play.n_steps = 2
    /\ Len(play.added) = 2
    /\ play.added[1].episode = 1
    /\ play.added[1].step > 0
    /\ n_add > 0

====
